---- MODULE Spec2Model ----
(***************************************************************************)
(* Order lifecycle and inventory reservation of buyzaar-be.                *)
(*                                                                         *)
(* The repository carries the order logic in several layers:               *)
(*   services  app/services/order.py, product.py (ORM rows, wired to       *)
(*             api/v1), read back by app/routes/orders.py                  *)
(*   domain    app/domain/models/*.py and app/domain/services/             *)
(*             order_service.py           (in-memory aggregates)           *)
(*   repository  app/infrastructure/database/repositories/*.py             *)
(*   money     app/domain/value_objects/money.py (the Money class alone)   *)
(* The variable `layer` selects which layer's operations act on the        *)
(* products and orders of a behaviour.  Amounts of money are integers in   *)
(* cents.                                                                  *)
(*                                                                         *)
(* Specifications:                                                         *)
(*   Spec         the order lifecycle, one call at a time, either layer    *)
(*   SpecConc     two create_order requests, statement by statement        *)
(*   SpecProduct  one domain Product under every call of its interface     *)
(*   SpecOrder    one domain Order under every call of its interface       *)
(*   SpecTotal    Order.calculate_total over item lists                    *)
(*   SpecCatalog  placements while products leave the catalogue            *)
(*   SpecPricing  placements while names and prices of products change     *)
(*   SpecStorage  product rows deleted and updated, services and repository *)
(*   SpecMoney    one Money amount under every operation of the class       *)
(*   SpecCreate   the domain's create_order_from_products                   *)
(*   SpecReserve  one domain order reserving and releasing stock            *)
(*   SpecCancel   cancel_order next to a cancel or a placement, statement   *)
(*                by statement                                              *)
(*   SpecLegacy   the status updates of the legacy route routes/orders.py   *)
(***************************************************************************)
EXTENDS Integers, Sequences, FiniteSets, TLC

\* ------------------------------------------------------------------ bounds
NumProducts == 2
MaxOrders == 2
MaxLines == 2
MaxQty == 2
InitStock == 2
\* domain aggregates held in memory, items per aggregate, and the cap on stock
MaxDomainOrders == 1
MaxItems == 2
MaxStock == 3
\* items of an order whose total is calculated
MaxTotalItems == 3

\* ------------------------------------------------------------- value sets
ProductIds == 1..NumProducts
\* ids a request may name: the existing products and one absent id
RequestProductIds == 1..(NumProducts + 1)
Quantities == 1..MaxQty

PENDING == "pending"
PROCESSING == "processing"
SHIPPED == "shipped"
DELIVERED == "delivered"
CANCELLED == "cancelled"

OrderStatus_all == {PENDING, PROCESSING, SHIPPED, DELIVERED, CANCELLED}
\* what a caller may send as a status: the valid ones and one invalid string
RequestStatuses == OrderStatus_all \cup {"refunded"}

\* users table: keycloak id -> users.id ; "k0" has no row
KeycloakIds == {"k1", "k2"}
UserRow(kc) == IF kc = "k1" THEN 1 ELSE IF kc = "k2" THEN 2 ELSE 0
\* the user_id argument of the services: "" is None (admin caller)
CallerIds == KeycloakIds \cup {"k0", ""}
\* who places orders: a user with a row and one without
CreateCallers == {"k1", "k0"}

InitPrice(p) == IF p = 1 THEN 1000 ELSE 10 * p + 9
\* product names: a product's first name and the one a later update gives it
InitName(p) == IF p = 1 THEN "n1" ELSE "n2"

VARIABLES layer, products, orders, last, req
vars == <<layer, products, orders, last, req>>

StockOf(db) == [p \in ProductIds |-> db[p].stock]

NoItems == << >>

\* quantity of product p over a list of order items
RECURSIVE QtyOf(_, _)
QtyOf(items, p) ==
    IF items = << >> THEN 0
    ELSE (IF Head(items).product_id = p THEN Head(items).quantity ELSE 0)
         + QtyOf(Tail(items), p)

\* sum of price * quantity over a list of order items, in cents
RECURSIVE SumSubtotals(_)
SumSubtotals(items) ==
    IF items = << >> THEN 0
    ELSE Head(items).price * Head(items).quantity + SumSubtotals(Tail(items))

\* --------------------------------------------------- floats and NUMERIC(10,2)
\* float values are integers in units of 1/FloatScale cent; the float
\* operations of one request may each be off by one unit, all upwards
\* (e = 1), all downwards (e = -1) or not at all (the totals of mixed
\* errors lie between these)
FloatScale == 1000
FloatErr == {-1, 0, 1}
\* float(product.price) * quantity
FloatItemPrice(price, quantity, e) == price * quantity * FloatScale + e
\* storing a float in a NUMERIC(10,2) column rounds it to the nearest cent
NumericRound(x) == (x + FloatScale \div 2) \div FloatScale

\* ------------------------------------------------------- the ORM session
\* A request works on its own session: rows are loaded into the identity map
\* on first access, attribute writes stay in the session until commit, and a
\* request that raises never commits (the session is removed at teardown).
EmptySession ==
    [loaded |-> {}, view |-> [p \in ProductIds |-> 0], dirty |-> {},
     items |-> NoItems, total |-> 0, err |-> ""]

\* a get that reads the row from the database again on every call
QueryGetRefreshes(db, sess, pid) ==
    IF pid \in ProductIds
    THEN [sess EXCEPT !.loaded = @ \cup {pid}, !.view[pid] = db[pid].stock]
    ELSE sess
\* Product.query.get(pid): the row of the identity map, loaded on first access
Query_get(db, sess, pid) ==
    IF pid \in ProductIds /\ pid \notin sess.loaded
    THEN [sess EXCEPT !.loaded = @ \cup {pid}, !.view[pid] = db[pid].stock]
    ELSE sess

\* db.session.commit(): UPDATE of the changed attribute of every dirty row
Commit(db, sess) ==
    [p \in ProductIds |->
        IF p \in sess.dirty THEN [db[p] EXCEPT !.stock = sess.view[p]]
        ELSE db[p]]

\* a teardown that flushes what the session changed
RollbackFlushes(db, sess) == Commit(db, sess)
\* a request that raises before its commit: the session is removed when the
\* request ends and nothing it changed reaches the database
Rollback(db, sess) == db

\* ------------------------------------------- services: OrderService.create_order
\* lines 98-100: look the product up, reject a missing or inactive one
CreateRead(db, sess, line) ==
    LET s1 == Query_get(db, sess, line.product_id)
    IN IF line.product_id \notin ProductIds \/ ~db[line.product_id].is_active
       THEN [s1 EXCEPT !.err = "product_not_found"]
       ELSE s1

\* lines 102-103: reject when the stock in the session is short
CreateCheck(sess, line) ==
    IF sess.view[line.product_id] < line.quantity
    THEN [sess EXCEPT !.err = "not_enough_stock"]
    ELSE sess

\* a decrement that always takes one unit
CreateDecrementOne(db, sess, line, e) ==
    [sess EXCEPT
        !.total = @ + FloatItemPrice(db[line.product_id].price, line.quantity, e),
        !.items = Append(@, [product_id |-> line.product_id,
                             quantity |-> line.quantity,
                             price |-> db[line.product_id].price]),
        !.view[line.product_id] = @ - 1,
        !.dirty = @ \cup {line.product_id}]
\* lines 105-117: price the line, remember the item, decrement the stock
CreateDecrement(db, sess, line, e) ==
    [sess EXCEPT
        !.total = @ + FloatItemPrice(db[line.product_id].price, line.quantity, e),
        !.items = Append(@, [product_id |-> line.product_id,
                             quantity |-> line.quantity,
                             price |-> db[line.product_id].price]),
        !.view[line.product_id] = @ - line.quantity,
        !.dirty = @ \cup {line.product_id}]

\* one iteration of the loop of lines 94-117
CreateLine(db, sess, line, e) ==
    LET s1 == CreateRead(db, sess, line)
    IN IF s1.err # "" THEN s1
       ELSE LET s2 == CreateCheck(s1, line)
            IN IF s2.err # "" THEN s2
               ELSE CreateDecrement(db, s2, line, e)

\* the whole loop: stops at the first line that raises
RECURSIVE CreateLoop(_, _, _, _)
CreateLoop(db, sess, lines, e) ==
    IF lines = << >> \/ sess.err # "" THEN sess
    ELSE CreateLoop(db, CreateLine(db, sess, Head(lines), e), Tail(lines), e)

\* lines 120-139: the order row and its items
NewOrder(id, user, sess) ==
    [id |-> id, user_id |-> user, status |-> PENDING,
     total_amount |-> NumericRound(sess.total), items |-> sess.items]

\* --------------------------------------------------------------- responses
\* what the most recent call did: the operation, whether it returned or
\* raised (and why), the order (or product) it was about, the status or
\* caller it was given, the quantity it was given, and the lines it placed
Response(op, ok, err, order, arg, n, lines) ==
    [op |-> op, ok |-> ok, err |-> err, order |-> order, arg |-> arg, n |-> n,
     lines |-> lines]
NoResponse == Response("none", TRUE, "", 0, "", 0, << >>)

\* requests in flight (used by the concurrent specifications only): the
\* operation, the order a cancel is for, the caller, the lines of a placement
RequestIds == {1, 2}
IdleRequest ==
    [pc |-> "idle", op |-> "", order |-> 0, kc |-> "", lines |-> << >>, i |-> 0, e |-> 0,
     sess |-> EmptySession]

LineSeqs(n) == UNION {[1..k -> [product_id : RequestProductIds, quantity : Quantities]] : k \in 0..n}

\* create_order, lines 67-143, as one transaction
Svc_create_order(kc, lines, e) ==
    /\ layer = "services"
    /\ Len(orders) < MaxOrders
    /\ LET user == UserRow(kc)
           sess == CreateLoop(products, EmptySession, lines, e)
           id == Len(orders) + 1
           resp(ok, err) == Response("create_order", ok, err, IF ok THEN id ELSE 0,
                                     IF ~ok /\ sess.dirty # {} THEN "dirty" ELSE "",
                                     0, IF ok THEN lines ELSE << >>)
       IN IF user = 0
          THEN /\ last' = resp(FALSE, "user_not_found")
               /\ UNCHANGED <<products, orders>>
          ELSE IF lines = << >>
          THEN /\ last' = resp(FALSE, "no_items")
               /\ UNCHANGED <<products, orders>>
          ELSE IF sess.err # ""
          THEN /\ last' = resp(FALSE, sess.err)
               /\ products' = Rollback(products, sess)
               /\ UNCHANGED orders
          ELSE /\ products' = Commit(products, sess)
               /\ orders' = Append(orders, NewOrder(id, user, sess))
               /\ last' = resp(TRUE, "")
    /\ UNCHANGED <<layer, req>>

\* a lookup that shows every order to every caller
GetOrderOfAnyUser(os, order_id, user_id) ==
    IF order_id \notin 1..Len(os) THEN "order_not_found" ELSE ""
\* get_order_by_id, lines 41-65: "" when found and visible to the caller
get_order_by_id(os, order_id, user_id) ==
    IF order_id \notin 1..Len(os) THEN "order_not_found"
    ELSE IF user_id # "" /\ (UserRow(user_id) = 0 \/ os[order_id].user_id # UserRow(user_id))
    THEN "order_not_found"
    ELSE ""

\* a restore that gives back one unit for every item
RECURSIVE RestoreOneEach(_, _, _)
RestoreOneEach(db, sess, items) ==
    IF items = << >> THEN sess
    ELSE LET item == Head(items)
             s1 == Query_get(db, sess, item.product_id)
             s2 == IF item.product_id \in ProductIds
                   THEN [s1 EXCEPT !.view[item.product_id] = @ + 1,
                                   !.dirty = @ \cup {item.product_id}]
                   ELSE s1
         IN RestoreOneEach(db, s2, Tail(items))
\* a restore that forgets the items
RestoreNothing(db, sess, items) == sess
\* _restore_product_stock, lines 216-226
RECURSIVE restore_product_stock(_, _, _)
restore_product_stock(db, sess, items) ==
    IF items = << >> THEN sess
    ELSE LET item == Head(items)
             s1 == Query_get(db, sess, item.product_id)
             s2 == IF item.product_id \in ProductIds
                   THEN [s1 EXCEPT !.view[item.product_id] = @ + item.quantity,
                                   !.dirty = @ \cup {item.product_id}]
                   ELSE s1
         IN restore_product_stock(db, s2, Tail(items))

\* a restore on every status change
RestoresOnAnyChange(from, to) == from # to
\* where update_order_status restores stock, lines 174-176
UpdateRestores(from, to) == to = CANCELLED /\ from # CANCELLED

\* checks that forget the terminal statuses
UpdateStatusCheckOpen(from, to) ==
    IF to \notin OrderStatus_all THEN "invalid_status" ELSE ""
\* the status checks of update_order_status, lines 162-172
UpdateStatusError(from, to) ==
    IF to \notin OrderStatus_all THEN "invalid_status"
    ELSE IF from = CANCELLED /\ to # CANCELLED THEN "order_cancelled"
    ELSE IF from = DELIVERED /\ to # DELIVERED THEN "order_delivered"
    ELSE ""

\* update_order_status, lines 145-181
Svc_update_order_status(order_id, status) ==
    /\ layer = "services"
    /\ LET found == get_order_by_id(orders, order_id, "")
           from == IF found = "" THEN orders[order_id].status ELSE ""
           resp(ok, err) == Response("update_order_status", ok, err, order_id, status,
                                     0, << >>)
       IN IF found # ""
          THEN /\ last' = resp(FALSE, found)
               /\ UNCHANGED <<products, orders>>
          ELSE IF UpdateStatusError(from, status) # ""
          THEN /\ last' = resp(FALSE, UpdateStatusError(from, status))
               /\ UNCHANGED <<products, orders>>
          ELSE LET sess == IF UpdateRestores(from, status)
                           THEN restore_product_stock(products, EmptySession,
                                                      orders[order_id].items)
                           ELSE EmptySession
               IN /\ products' = Commit(products, sess)
                  /\ orders' = [orders EXCEPT ![order_id].status = status]
                  /\ last' = resp(TRUE, "")
    /\ UNCHANGED <<layer, req>>

\* the status checks of cancel_order, lines 200-205
CancelError(from) ==
    IF from = CANCELLED THEN "already_cancelled"
    ELSE IF from \in {DELIVERED, SHIPPED} THEN "cannot_cancel"
    ELSE ""

\* cancel_order, lines 183-214
Svc_cancel_order(order_id, user_id) ==
    /\ layer = "services"
    /\ LET found == get_order_by_id(orders, order_id, user_id)
           from == IF found = "" THEN orders[order_id].status ELSE ""
           resp(ok, err) == Response("cancel_order", ok, err, order_id, user_id, 0, << >>)
       IN IF found # ""
          THEN /\ last' = resp(FALSE, found)
               /\ UNCHANGED <<products, orders>>
          ELSE IF CancelError(from) # ""
          THEN /\ last' = resp(FALSE, CancelError(from))
               /\ UNCHANGED <<products, orders>>
          ELSE LET sess == restore_product_stock(products, EmptySession,
                                                 orders[order_id].items)
               IN /\ products' = Commit(products, sess)
                  /\ orders' = [orders EXCEPT ![order_id].status = CANCELLED]
                  /\ last' = resp(TRUE, "")
    /\ UNCHANGED <<layer, req>>

\* ProductService.delete_product, lines 154-170: the soft delete of a product
\* that get_product_by_id (lines 65-81) finds, that is, an active one
Svc_delete_product(product_id) ==
    /\ layer = "services"
    /\ LET resp(ok, err) == Response("delete_product", ok, err, product_id, "", 0, << >>)
       IN IF product_id \notin ProductIds \/ ~products[product_id].is_active
          THEN /\ last' = resp(FALSE, "product_not_found")
               /\ UNCHANGED products
          ELSE /\ products' = [products EXCEPT ![product_id].is_active = FALSE]
               /\ last' = resp(TRUE, "")
    /\ UNCHANGED <<layer, orders, req>>

\* the setattr loop of ProductService.update_product, lines 147-148: data
\* maps some of the keys name, price, stock, is_active to new values; a
\* price comes as a number (in mills) and is stored in a NUMERIC(10,2) column
Svc_setattrs(product, data) ==
    [name |-> IF "name" \in DOMAIN data THEN data["name"] ELSE product.name,
     price |-> IF "price" \in DOMAIN data
               THEN NumericRound(data["price"] * (FloatScale \div 10))
               ELSE product.price,
     stock |-> IF "stock" \in DOMAIN data THEN data["stock"] ELSE product.stock,
     is_active |-> IF "is_active" \in DOMAIN data THEN data["is_active"]
                   ELSE product.is_active]

\* ProductService.update_product, lines 113-152
Svc_update_product(product_id, data) ==
    /\ layer = "services"
    /\ LET resp(ok, err) == Response("update_product", ok, err, product_id, "", 0, << >>)
       IN IF product_id \notin ProductIds \/ ~products[product_id].is_active
          THEN /\ last' = resp(FALSE, "product_not_found")
               /\ UNCHANGED products
          ELSE /\ products' = [products EXCEPT ![product_id] = Svc_setattrs(@, data)]
               /\ last' = resp(TRUE, "")
    /\ UNCHANGED <<layer, orders, req>>

\* the items of the result of the route get_order, lines 62-68: the name is
\* the name of the item's product row
get_order_items(db, order) ==
    [i \in 1..Len(order.items) |->
        [product_id |-> order.items[i].product_id,
         product_name |-> db[order.items[i].product_id].name,
         quantity |-> order.items[i].quantity,
         price |-> order.items[i].price]]

\* the route get_order, lines 44-71: admin tells whether the caller has the
\* admin role, kc is the caller's keycloak id
Route_get_order(id, kc, admin) ==
    /\ layer = "services"
    /\ last' = IF id \notin 1..Len(orders)
               THEN Response("get_order", FALSE, "404", id, kc, 0, << >>)
               ELSE IF ~admin /\ UserRow(kc) = 0
               THEN Response("get_order", FALSE, "404", id, kc, 0, << >>)
               ELSE IF ~admin /\ orders[id].user_id # UserRow(kc)
               THEN Response("get_order", FALSE, "403", id, kc, 0, << >>)
               ELSE Response("get_order", TRUE, "", id, kc, orders[id].total_amount,
                             get_order_items(products, orders[id]))
    /\ UNCHANGED <<layer, products, orders, req>>

\* the statuses the legacy route accepts, line 159, and what a caller may send
LegacyStatuses == {"pending", "completed", CANCELLED}
LegacyRequestStatuses == LegacyStatuses \cup {SHIPPED}

\* the legacy route update_order_status, routes/orders.py lines 150-181
Route_update_order_status(id, status) ==
    /\ layer = "services"
    /\ LET resp(ok, err) == Response("routes.update_order_status", ok, err, id, status,
                                     0, << >>)
       IN IF id \notin 1..Len(orders)
          THEN /\ last' = resp(FALSE, "404")
               /\ UNCHANGED <<products, orders>>
          ELSE IF status \notin LegacyStatuses
          THEN /\ last' = resp(FALSE, "400")
               /\ UNCHANGED <<products, orders>>
          ELSE LET sess == IF status = CANCELLED /\ orders[id].status # CANCELLED
                           THEN restore_product_stock(products, EmptySession,
                                                      orders[id].items)
                           ELSE EmptySession
               IN /\ \A p \in ProductIds : Commit(products, sess)[p].stock <= MaxStock
                  /\ products' = Commit(products, sess)
                  /\ orders' = [orders EXCEPT ![id].status = status]
                  /\ last' = resp(TRUE, "")
    /\ UNCHANGED <<layer, req>>

\* ------------------------------------------------ domain: Money (value object)
\* a Decimal is an integer number of mills (1/10 cent); a Money amount is an
\* integer number of cents
\* a quantize that rounds half away from zero
QuantizeHalfUp(mills) ==
    LET q == mills \div 10
        r == mills % 10
    IN IF r > 5 \/ (r = 5 /\ q >= 0) THEN q + 1 ELSE q
\* Money.__post_init__: quantize(Decimal('0.01')), rounding half to even
Quantize(mills) ==
    LET q == mills \div 10
        r == mills % 10
    IN IF r > 5 \/ (r = 5 /\ q % 2 = 1) THEN q + 1 ELSE q
\* Money.__mul__
Money_mul(amount, multiplier) == Quantize(amount * 10 * multiplier)
\* an addition that keeps one decimal of its left operand
MoneyAddCoarse(a, b) == Quantize(((a \div 10) * 10 + b) * 10)
\* Money.__add__
Money_add(a, b) == Quantize((a + b) * 10)
\* Money.__sub__
Money_sub(a, b) == Quantize((a - b) * 10)
\* the Money of the Decimal num / den cents (den # 0): the quotient is
\* quantized to whole cents, half to even (the 28 significant digits a
\* Decimal quotient keeps are exact enough for amounts and scalars given in
\* thousandths: no such quotient is within 10^-20 of a half cent without
\* being one)
QuantizeRatio(num, den) ==
    LET n == IF den < 0 THEN -num ELSE num
        d == IF den < 0 THEN -den ELSE den
        q == n \div d
        r == n % d
    IN IF 2 * r > d \/ (2 * r = d /\ q % 2 = 1) THEN q + 1 ELSE q
\* Money.__mul__ and Money.__truediv__ with a scalar given in thousandths
\* (Decimal(str(multiplier)), lines 43 and 51)
Money_mul_scalar(amount, thousandths) == QuantizeRatio(amount * thousandths, 1000)
Money_truediv(amount, thousandths) == QuantizeRatio(amount * 1000, thousandths)

\* ------------------------------------------------ domain: OrderStatus, Order
OrderStatus_is_valid(status) == status \in OrderStatus_all
OrderStatus_is_final(status) == status \in {DELIVERED, CANCELLED}

\* a table with pending -> shipped
TransitionTableLoose(from, to) ==
    IF OrderStatus_is_final(from) THEN FALSE
    ELSE IF from = to THEN FALSE
    ELSE \/ from = PENDING /\ to \in {PROCESSING, SHIPPED, CANCELLED}
         \/ from = PROCESSING /\ to \in {SHIPPED, CANCELLED}
         \/ from = SHIPPED /\ to \in {DELIVERED, CANCELLED}
\* OrderStatus.can_transition, lines 39-57
OrderStatus_can_transition(from, to) ==
    IF OrderStatus_is_final(from) THEN FALSE
    ELSE IF from = to THEN FALSE
    ELSE \/ from = PENDING /\ to \in {PROCESSING, CANCELLED}
         \/ from = PROCESSING /\ to \in {SHIPPED, CANCELLED}
         \/ from = SHIPPED /\ to \in {DELIVERED, CANCELLED}

\* Order.calculate_total, lines 299-312
RECURSIVE TotalFrom(_, _)
TotalFrom(total, items) ==
    IF items = << >> THEN total
    ELSE TotalFrom(Money_add(total, Money_mul(Head(items).price, Head(items).quantity)),
                   Tail(items))
calculate_total(items) == TotalFrom(0, items)

\* an add_item that puts the item first and leaves its order_id alone
AddItemFirst(order, item) ==
    LET items == <<item>> \o order.items
    IN [order EXCEPT !.items = items, !.total_amount = calculate_total(items)]
\* Order.add_item, lines 225-232, on an order that is not final
Order_add_item(order, item) ==
    LET items == Append(order.items, [item EXCEPT !.order_id = order.id])
    IN [order EXCEPT !.items = items, !.total_amount = calculate_total(items)]

\* ------------------------------------------------------- domain: Product
\* an update that lets the stock go to the floor instead of raising
UpdateStockClamped(stock, quantity) ==
    IF quantity < 0 /\ -quantity > stock THEN 0 ELSE stock + quantity
\* Product.update_stock, lines 115-134: the stock after the call, which is
\* the stock before it when it raises InsufficientInventoryError
Product_update_stock(stock, quantity) ==
    IF quantity < 0 /\ -quantity > stock THEN stock ELSE stock + quantity
\* line 125: whether update_stock raises
Product_update_stock_raises(stock, quantity) == quantity < 0 /\ -quantity > stock
\* Product.reserve_stock, Product.release_stock, lines 136-155
Product_reserve_stock(stock, quantity) == Product_update_stock(stock, -quantity)
Product_release_stock(stock, quantity) == Product_update_stock(stock, quantity)

\* ------------------------------------------------------- domain: actions
\* OrderItem(...), lines 60-79: id and order_id 0 stand for None
OrderItem(id, order_id, product_id, product_name, quantity, price) ==
    [id |-> id, order_id |-> order_id, product_id |-> product_id,
     product_name |-> product_name, quantity |-> quantity, price |-> price]

\* Order(...) with one item taken from a product: Order.__post_init__ and
\* OrderItem.__post_init__; total_amount is the given one, 0.00 when omitted
Dom_new_order(status, p, q, with_total) ==
    /\ layer = "domain"
    /\ Len(orders) < MaxDomainOrders
    /\ LET item == OrderItem(0, 0, p, products[p].name, q, products[p].price)
           order == [id |-> Len(orders) + 1, user_id |-> 1, status |-> status,
                     total_amount |-> IF with_total THEN calculate_total(<<item>>) ELSE 0,
                     items |-> <<item>>]
       IN /\ orders' = Append(orders, order)
          /\ last' = Response("Order", TRUE, "", Len(orders) + 1, status, q, << >>)
    /\ UNCHANGED <<layer, products, req>>

\* Order.update_status, lines 314-336
Dom_update_status(o, new_status) ==
    /\ layer = "domain"
    /\ o \in 1..Len(orders)
    /\ LET from == orders[o].status
           resp(ok, err) == Response("Order.update_status", ok, err, o, new_status, 0, << >>)
       IN IF ~OrderStatus_is_valid(new_status)
          THEN /\ last' = resp(FALSE, "ValidationError")
               /\ UNCHANGED orders
          ELSE IF ~OrderStatus_can_transition(from, new_status)
          THEN /\ last' = resp(FALSE, "InvalidStatusTransitionError")
               /\ UNCHANGED orders
          ELSE /\ orders' = [orders EXCEPT ![o].status = new_status]
               /\ last' = resp(TRUE, "")
    /\ UNCHANGED <<layer, products, req>>

\* the checks of Order.cancel, lines 345-349
Order_cancel_error(status) ==
    IF status = CANCELLED THEN "already_cancelled"
    ELSE IF status = DELIVERED THEN "cannot_cancel"
    ELSE ""

\* Order.cancel, lines 338-352
Dom_cancel(o) ==
    /\ layer = "domain"
    /\ o \in 1..Len(orders)
    /\ LET err == Order_cancel_error(orders[o].status)
       IN IF err # ""
          THEN /\ last' = Response("Order.cancel", FALSE, err, o, "", 0, << >>)
               /\ UNCHANGED orders
          ELSE /\ orders' = [orders EXCEPT ![o].status = CANCELLED]
               /\ last' = Response("Order.cancel", TRUE, "", o, "", 0, << >>)
    /\ UNCHANGED <<layer, products, req>>

\* OrderService.add_product_to_order, lines 63-109
Dom_add_product_to_order(o, p, quantity) ==
    /\ layer = "domain"
    /\ o \in 1..Len(orders)
    /\ Len(orders[o].items) < MaxItems
    /\ LET resp(ok, err) == Response("add_product_to_order", ok, err, o, "", quantity,
                                     IF ok THEN <<[product_id |-> p, quantity |-> quantity]>>
                                     ELSE << >>)
           item == OrderItem(0, 0, p, products[p].name, quantity, products[p].price)
       IN IF OrderStatus_is_final(orders[o].status)
          THEN /\ last' = resp(FALSE, "BusinessRuleError")
               /\ UNCHANGED <<orders, products>>
          ELSE IF quantity <= 0
          THEN /\ last' = resp(FALSE, "ValueError")
               /\ UNCHANGED <<orders, products>>
          ELSE IF products[p].stock < quantity
          THEN /\ last' = resp(FALSE, "InsufficientInventoryError")
               /\ UNCHANGED <<orders, products>>
          ELSE /\ orders' = [orders EXCEPT ![o] = Order_add_item(@, item)]
               /\ products' = [products EXCEPT
                                 ![p].stock = Product_reserve_stock(@, quantity)]
               /\ last' = resp(TRUE, "")
    /\ UNCHANGED <<layer, req>>

\* the loop of OrderService.cancel_order, lines 127-131: every item releases
\* its quantity on the first product of the list with its product id
RECURSIVE ReleaseStock(_, _, _)
ReleaseStock(stock, items, given) ==
    IF items = << >> THEN stock
    ELSE LET item == Head(items)
             s1 == IF item.product_id \in given
                   THEN [stock EXCEPT ![item.product_id] =
                            Product_release_stock(@, item.quantity)]
                   ELSE stock
         IN ReleaseStock(s1, Tail(items), given)

\* OrderService.cancel_order(order, products), lines 111-131
Dom_cancel_order(o, given) ==
    /\ layer = "domain"
    /\ o \in 1..Len(orders)
    /\ LET err == Order_cancel_error(orders[o].status)
           released == ReleaseStock(StockOf(products), orders[o].items, given)
       IN IF err # ""
          THEN /\ last' = Response("cancel_order", FALSE, err, o, "", 0, << >>)
               /\ UNCHANGED <<orders, products>>
          ELSE /\ \A p \in ProductIds : released[p] <= MaxStock
               /\ orders' = [orders EXCEPT ![o].status = CANCELLED]
               /\ products' = [p \in ProductIds |->
                                 [products[p] EXCEPT !.stock = released[p]]]
               /\ last' = Response("cancel_order", TRUE, "", o,
                                   IF \A i \in 1..Len(orders[o].items) :
                                        orders[o].items[i].product_id \in given
                                   THEN "all" ELSE "some", 0, << >>)
    /\ UNCHANGED <<layer, req>>

\* Product.update_stock / reserve_stock / release_stock called directly
Dom_update_stock(op, p, quantity) ==
    /\ layer = "domain"
    /\ LET stock == products[p].stock
           after == CASE op = "update_stock" -> Product_update_stock(stock, quantity)
                      [] op = "reserve_stock" -> Product_reserve_stock(stock, quantity)
                      [] op = "release_stock" -> Product_release_stock(stock, quantity)
           raises == Product_update_stock_raises(
                         stock, IF op = "reserve_stock" THEN -quantity ELSE quantity)
       IN /\ after <= MaxStock
          /\ products' = [products EXCEPT ![p].stock = after]
          /\ last' = IF raises
                     THEN Response(op, FALSE, "InsufficientInventoryError", p, "",
                                   quantity, << >>)
                     ELSE Response(op, TRUE, "", p, "", quantity, << >>)
    /\ UNCHANGED <<layer, orders, req>>

\* --------------------------------------------- domain: the Order aggregate
\* OrderItem.validate, lines 81-103
OrderItem_validate(item) ==
    item.product_id # 0 /\ item.quantity > 0 /\ item.price > 0
\* Order.validate, lines 188-210
Order_validate(order) ==
    order.user_id # 0 /\ OrderStatus_is_valid(order.status) /\ order.items # << >>

\* ids of order items (0 is None) and the ids a caller may ask for
ItemIds == {0, 1}
RequestItemIds == ItemIds \cup {2}
\* the items a caller builds from the products
NewItems ==
    {OrderItem(id, 0, p, products[p].name, q, products[p].price) :
        id \in ItemIds, p \in ProductIds, q \in Quantities}
ItemSeqs(n) == UNION {[1..k -> NewItems] : k \in 0..n}

\* Order(id, user_id, status, total_amount, items), lines 153-186: the total
\* is the one given, 0.00 when none is given (-1 stands for None)
Dom_Order(status, items, total_amount) ==
    /\ layer = "domain"
    /\ Len(orders) < MaxDomainOrders
    /\ LET id == Len(orders) + 1
           order == [id |-> id, user_id |-> 1, status |-> status,
                     total_amount |-> IF total_amount = -1 THEN 0 ELSE total_amount,
                     items |-> items]
       IN IF Order_validate(order)
          THEN /\ orders' = Append(orders, order)
               /\ last' = Response("Order", TRUE, "", id, status, total_amount, << >>)
          ELSE /\ last' = Response("Order", FALSE, "ValidationError", 0, status,
                                   total_amount, << >>)
               /\ UNCHANGED orders
    /\ UNCHANGED <<layer, products, req>>

\* OrderItem(...) and Order.add_item(item), lines 71-79 and 212-235
Dom_add_item(o, id, p, quantity) ==
    /\ layer = "domain"
    /\ o \in 1..Len(orders)
    /\ Len(orders[o].items) < MaxItems
    /\ LET item == OrderItem(id, 0, p, products[p].name, quantity, products[p].price)
           resp(ok, err) == Response("add_item", ok, err, o, "", quantity,
                                     IF err = "ValidationError" THEN << >> ELSE <<item>>)
       IN IF ~OrderItem_validate(item)
          THEN /\ last' = resp(FALSE, "ValidationError")
               /\ UNCHANGED orders
          ELSE IF OrderStatus_is_final(orders[o].status)
          THEN /\ last' = resp(FALSE, "BusinessRuleError")
               /\ UNCHANGED orders
          ELSE /\ orders' = [orders EXCEPT ![o] = Order_add_item(@, item)]
               /\ last' = resp(TRUE, "")
    /\ UNCHANGED <<layer, products, req>>

\* the loops of lines 252-253 and 285-286: the index of the first item with
\* the id, 0 when there is none
FirstWithId(items, item_id) ==
    IF \E i \in 1..Len(items) : items[i].id = item_id
    THEN CHOOSE i \in 1..Len(items) :
           /\ items[i].id = item_id
           /\ \A j \in 1..(i - 1) : items[j].id # item_id
    ELSE 0

\* a removal of every item that has the id of item i
PopAllWithId(items, i) == SelectSeq(items, LAMBDA it : it.id # items[i].id)
\* self.items.pop(i), line 255
Pop(items, i) == SubSeq(items, 1, i - 1) \o SubSeq(items, i + 1, Len(items))

\* Order.remove_item, lines 237-264
Dom_remove_item(o, item_id) ==
    /\ layer = "domain"
    /\ o \in 1..Len(orders)
    /\ LET i == FirstWithId(orders[o].items, item_id)
           items == Pop(orders[o].items, i)
           resp(ok, err) == Response("remove_item", ok, err, o, "", item_id, << >>)
       IN IF OrderStatus_is_final(orders[o].status)
          THEN /\ last' = resp(FALSE, "BusinessRuleError")
               /\ UNCHANGED orders
          ELSE IF i = 0
          THEN /\ last' = resp(FALSE, "ValueError")
               /\ UNCHANGED orders
          ELSE /\ orders' = [orders EXCEPT ![o].items = items,
                                            ![o].total_amount = calculate_total(items)]
               /\ last' = resp(TRUE, "")
    /\ UNCHANGED <<layer, products, req>>

\* a quantity check that lets zero through
QuantityRejectedBelowZero(quantity) == quantity < 0
\* line 281
QuantityRejected(quantity) == quantity <= 0

\* Order.update_item_quantity, lines 266-297
Dom_update_item_quantity(o, item_id, quantity) ==
    /\ layer = "domain"
    /\ o \in 1..Len(orders)
    /\ LET i == FirstWithId(orders[o].items, item_id)
           items == [orders[o].items EXCEPT ![i].quantity = quantity]
           resp(ok, err) == Response("update_item_quantity", ok, err, o, "", quantity,
                                     <<item_id>>)
       IN IF OrderStatus_is_final(orders[o].status)
          THEN /\ last' = resp(FALSE, "BusinessRuleError")
               /\ UNCHANGED orders
          ELSE IF QuantityRejected(quantity)
          THEN /\ last' = resp(FALSE, "ValueError")
               /\ UNCHANGED orders
          ELSE IF i = 0
          THEN /\ last' = resp(FALSE, "ValueError")
               /\ UNCHANGED orders
          ELSE /\ orders' = [orders EXCEPT ![o].items = items,
                                            ![o].total_amount = calculate_total(items)]
               /\ last' = resp(TRUE, "")
    /\ UNCHANGED <<layer, products, req>>

\* what a caller may pass as the products of create_order_from_products:
\* dictionaries with some of the keys product_id and quantity
ProductDataKeys == {"product_id", "quantity"}
ProductData ==
    UNION {[keys -> 0..MaxQty] : keys \in SUBSET ProductDataKeys}
ProductDataSeqs(n) == UNION {[1..k -> ProductData] : k \in 0..n}
\* lines 47-59: whether the loop raises ValueError for an entry
ProductDataInvalid(product_data) ==
    \/ "product_id" \notin DOMAIN product_data
    \/ "quantity" \notin DOMAIN product_data
    \/ product_data["product_id"] <= 0
    \/ product_data["quantity"] <= 0

\* OrderService.create_order_from_products, lines 16-61: the Order is made
\* without items (line 39) and validated by its __post_init__
Dom_create_order_from_products(user_id, product_list) ==
    /\ layer = "domain"
    /\ Len(orders) < MaxDomainOrders
    /\ LET id == Len(orders) + 1
           order == [id |-> id, user_id |-> user_id, status |-> PENDING,
                     total_amount |-> 0, items |-> << >>]
           resp(ok, err) == Response("create_order_from_products", ok, err,
                                     IF ok THEN id ELSE 0, "", user_id, product_list)
       IN IF product_list = << >>
          THEN /\ last' = resp(FALSE, "BusinessRuleError")
               /\ UNCHANGED orders
          ELSE IF ~Order_validate(order)
          THEN /\ last' = resp(FALSE, "ValidationError")
               /\ UNCHANGED orders
          ELSE IF \E i \in 1..Len(product_list) : ProductDataInvalid(product_list[i])
          THEN /\ last' = resp(FALSE, "ValueError")
               /\ UNCHANGED orders
          ELSE /\ orders' = Append(orders, order)
               /\ last' = resp(TRUE, "")
    /\ UNCHANGED <<layer, products, req>>

\* one Order aggregate under every call of its interface
NextOrder ==
    \/ \E st \in RequestStatuses, items \in ItemSeqs(MaxItems) :
         \E total_amount \in {-1, calculate_total(items)} :
            Dom_Order(st, items, total_amount)
    \/ \E o \in 1..MaxDomainOrders, id \in ItemIds, p \in ProductIds, q \in 0..MaxQty :
         Dom_add_item(o, id, p, q)
    \/ \E o \in 1..MaxDomainOrders, id \in RequestItemIds : Dom_remove_item(o, id)
    \/ \E o \in 1..MaxDomainOrders, id \in RequestItemIds, q \in (-1)..MaxQty :
         Dom_update_item_quantity(o, id, q)
    \/ \E o \in 1..MaxDomainOrders, s \in RequestStatuses : Dom_update_status(o, s)
    \/ \E o \in 1..MaxDomainOrders : Dom_cancel(o)

\* ------------------------------------------- domain: the Product aggregate
\* Product.validate, lines 46-68
Product_validate(product) ==
    product.name # "" /\ product.price > 0 /\ product.stock >= 0

\* the assignments of Product.update, lines 81-97: data maps some of the
\* keys name, price, stock, is_active to new values; a price comes as a
\* Decimal (in mills) and is made a Money
Product_assign(product, data) ==
    [name |-> IF "name" \in DOMAIN data THEN data["name"] ELSE product.name,
     price |-> IF "price" \in DOMAIN data THEN Quantize(data["price"]) ELSE product.price,
     stock |-> IF "stock" \in DOMAIN data THEN data["stock"] ELSE product.stock,
     is_active |-> IF "is_active" \in DOMAIN data THEN data["is_active"]
                   ELSE product.is_active]

\* what a caller may pass to Product.update
UpdateKeys == {"name", "price", "stock", "is_active"}
UpdateNames == {"", "n3"}
UpdatePrices == {4, 290}
UpdateStocks == {-1, 1}
UpdateData(keys, name, price, stock, is_active) ==
    [k \in keys |-> CASE k = "name" -> name
                      [] k = "price" -> price
                      [] k = "stock" -> stock
                      [] k = "is_active" -> is_active]

\* Product.update, lines 70-103: assigns, then validates
Dom_product_update(p, data) ==
    /\ layer = "domain"
    /\ products' = [products EXCEPT ![p] = Product_assign(@, data)]
    /\ last' = IF Product_validate(products'[p])
               THEN Response("Product.update", TRUE, "", p, "", 0, << >>)
               ELSE Response("Product.update", FALSE, "ValidationError", p, "", 0, << >>)
    /\ UNCHANGED <<layer, orders, req>>

\* Product.deactivate and Product.activate, lines 105-113
Dom_deactivate(p) ==
    /\ layer = "domain"
    /\ products' = [products EXCEPT ![p].is_active = FALSE]
    /\ last' = Response("deactivate", TRUE, "", p, "", 0, << >>)
    /\ UNCHANGED <<layer, orders, req>>

Dom_activate(p) ==
    /\ layer = "domain"
    /\ products' = [products EXCEPT ![p].is_active = TRUE]
    /\ last' = Response("activate", TRUE, "", p, "", 0, << >>)
    /\ UNCHANGED <<layer, orders, req>>

\* ------------------------------------------ infrastructure: the repositories
\* The products table is a map from the ids of the rows it has to the rows;
\* the orders are the rows of orders with their order_items.

\* whether an order_items row refers to the product
Referenced(os, product_id) ==
    \E o \in 1..Len(os) : \E i \in 1..Len(os[o].items) :
        os[o].items[i].product_id = product_id

\* db.session.delete(product_model), line 183, of a row no item refers to
DeleteRow(db, product_id) == [q \in (DOMAIN db) \ {product_id} |-> db[q]]

\* ProductRepository.delete, lines 169-184.  The delete first sets the
\* product_id of the product's order_items to NULL (the relationship
\* order_items has no delete cascade); the column is NOT NULL, so the commit
\* of a product that items refer to raises IntegrityError and the row stays.
Repo_delete(product_id) ==
    /\ layer = "repository"
    /\ LET resp(ok, err) == Response("ProductRepository.delete", ok, err, product_id,
                                     "", 0, << >>)
       IN IF product_id \notin DOMAIN products
          THEN /\ last' = resp(FALSE, "NotFoundError")
               /\ UNCHANGED products
          ELSE IF Referenced(orders, product_id)
          THEN /\ last' = resp(FALSE, "IntegrityError")
               /\ UNCHANGED products
          ELSE /\ products' = DeleteRow(products, product_id)
               /\ last' = resp(TRUE, "")
    /\ UNCHANGED <<layer, orders, req>>

\* lines 205-209: the stock after the update
RepoStock(stock, quantity) == IF stock + quantity < 0 THEN 0 ELSE stock + quantity

\* ProductRepository.update_stock, lines 186-213
Repo_update_stock(product_id, quantity) ==
    /\ layer = "repository"
    /\ LET resp(ok, err) == Response("ProductRepository.update_stock", ok, err,
                                     product_id, "", quantity, << >>)
       IN IF product_id \notin DOMAIN products
          THEN /\ last' = resp(FALSE, "NotFoundError")
               /\ UNCHANGED products
          ELSE /\ RepoStock(products[product_id].stock, quantity) <= MaxStock
               /\ products' = [products EXCEPT
                                 ![product_id].stock = RepoStock(@, quantity)]
               /\ last' = resp(TRUE, "")
    /\ UNCHANGED <<layer, orders, req>>

\* ProductRepository.get_by_id, lines 20-37, then OrderRepository.create,
\* lines 94-138, of a pending Order of one item made from the product: the
\* order and the item get the next ids of their tables
Repo_create(product_id, quantity) ==
    /\ layer = "repository"
    /\ Len(orders) < MaxOrders
    /\ LET id == Len(orders) + 1
           resp(ok, err) == Response("OrderRepository.create", ok, err,
                                     IF ok THEN id ELSE 0, "", quantity, << >>)
       IN IF product_id \notin DOMAIN products
          THEN /\ last' = resp(FALSE, "NotFoundError")
               /\ UNCHANGED orders
          ELSE LET item == OrderItem(id, id, product_id, products[product_id].name,
                                     quantity, products[product_id].price)
               IN /\ orders' = Append(orders,
                                  [id |-> id, user_id |-> 1, status |-> PENDING,
                                   total_amount |-> calculate_total(<<item>>),
                                   items |-> <<item>>])
                  /\ last' = resp(TRUE, "")
    /\ UNCHANGED <<layer, products, req>>

NextDomain ==
    \/ \E st \in OrderStatus_all, p \in ProductIds, q \in Quantities, t \in BOOLEAN :
         Dom_new_order(st, p, q, t)
    \/ \E o \in 1..MaxDomainOrders, s \in RequestStatuses : Dom_update_status(o, s)
    \/ \E o \in 1..MaxDomainOrders : Dom_cancel(o)
    \/ \E o \in 1..MaxDomainOrders, p \in ProductIds, q \in 0..MaxQty :
         Dom_add_product_to_order(o, p, q)
    \/ \E o \in 1..MaxDomainOrders, given \in SUBSET ProductIds : Dom_cancel_order(o, given)
    \/ \E op \in {"update_stock", "reserve_stock", "release_stock"},
          p \in ProductIds, q \in (-MaxQty)..MaxQty : Dom_update_stock(op, p, q)

InitProducts ==
    [p \in ProductIds |-> [stock |-> InitStock, price |-> InitPrice(p),
                           is_active |-> TRUE, name |-> InitName(p)]]

Init ==
    /\ layer \in {"services", "domain"}
    /\ products = InitProducts
    /\ orders = << >>
    /\ last = NoResponse
    /\ req = [r \in RequestIds |-> IdleRequest]

NextServices ==
    \/ \E kc \in CreateCallers, lines \in LineSeqs(MaxLines), e \in FloatErr :
         Svc_create_order(kc, lines, e)
    \/ \E o \in 1..MaxOrders, s \in RequestStatuses : Svc_update_order_status(o, s)
    \/ \E o \in 1..MaxOrders, u \in CallerIds : Svc_cancel_order(o, u)

Next == NextServices \/ NextDomain

\* the order lifecycle, one call at a time, in either layer
Spec == Init /\ [][Next]_vars

InitServices == Init /\ layer = "services"

InitDomain == Init /\ layer = "domain"

\* one Product aggregate under every call of its interface (the products are
\* separate objects: the calls on one never touch another)
NextProduct ==
    \E p \in {1} :
        \/ \E keys \in SUBSET UpdateKeys, n \in UpdateNames, pr \in UpdatePrices,
              st \in UpdateStocks, a \in BOOLEAN :
             Dom_product_update(p, UpdateData(keys, n, pr, st, a))
        \/ \E op \in {"update_stock", "reserve_stock", "release_stock"},
              q \in (-MaxQty)..MaxQty : Dom_update_stock(op, p, q)
        \/ Dom_deactivate(p)
        \/ Dom_activate(p)

SpecProduct == InitDomain /\ [][NextProduct]_vars

\* placements while products are taken out of the catalogue and put back:
\* the services' delete_product, the domain's deactivate and activate
NextCatalog ==
    \/ \E kc \in CreateCallers, lines \in LineSeqs(MaxLines), e \in FloatErr :
         Svc_create_order(kc, lines, e)
    \/ \E p \in RequestProductIds : Svc_delete_product(p)
    \/ \E st \in OrderStatus_all, p \in ProductIds, q \in Quantities, t \in BOOLEAN :
         Dom_new_order(st, p, q, t)
    \/ \E o \in 1..MaxDomainOrders, p \in ProductIds, q \in 0..MaxQty :
         Dom_add_product_to_order(o, p, q)
    \/ \E p \in ProductIds : Dom_deactivate(p)
    \/ \E p \in ProductIds : Dom_activate(p)

SpecCatalog == Init /\ [][NextCatalog]_vars

\* placements while the names and prices of the products change
PricingKeys == {"name", "price"}
PricingData(keys) == UpdateData(keys, "n3", 290, 0, TRUE)
NextPricing ==
    \/ \E kc \in CreateCallers, lines \in LineSeqs(MaxLines), e \in FloatErr :
         Svc_create_order(kc, lines, e)
    \/ \E p \in RequestProductIds, keys \in SUBSET PricingKeys :
         Svc_update_product(p, PricingData(keys))
    \/ \E o \in 1..MaxOrders, kc \in KeycloakIds, admin \in BOOLEAN :
         Route_get_order(o, kc, admin)
    \/ \E st \in OrderStatus_all, p \in ProductIds, q \in Quantities, t \in BOOLEAN :
         Dom_new_order(st, p, q, t)
    \/ \E o \in 1..MaxDomainOrders, p \in ProductIds, q \in 0..MaxQty :
         Dom_add_product_to_order(o, p, q)
    \/ \E p \in ProductIds, keys \in SUBSET PricingKeys :
         Dom_product_update(p, PricingData(keys))

SpecPricing == Init /\ [][NextPricing]_vars

\* the rows of the products table while products are deleted, orders are
\* stored and stock is updated: by the services and through the repositories
InitStorage ==
    /\ layer \in {"services", "repository"}
    /\ products = InitProducts
    /\ orders = << >>
    /\ last = NoResponse
    /\ req = [r \in RequestIds |-> IdleRequest]

NextStorage ==
    \/ \E kc \in CreateCallers, lines \in LineSeqs(MaxLines), e \in FloatErr :
         Svc_create_order(kc, lines, e)
    \/ \E p \in RequestProductIds : Svc_delete_product(p)
    \/ \E p \in RequestProductIds, q \in Quantities : Repo_create(p, q)
    \/ \E p \in RequestProductIds : Repo_delete(p)
    \/ \E p \in RequestProductIds, q \in (-MaxStock)..MaxQty : Repo_update_stock(p, q)

SpecStorage == InitStorage /\ [][NextStorage]_vars

\* ---------------------------------------------- domain: Money under its calls
\* One Money amount (last.n, in cents) that is constructed anew or replaced
\* by the result of an operation on it; Decimals are given in thousandths.
MaxAmount == 1010
\* the Decimals a Money is constructed from, the multipliers and the divisors
MoneyInputs == {-10005, 5, 15, 10005, 10015}
MoneyMultipliers == {-1000, 500, 1005, 2000}
MoneyDivisors == {-4000, 0, 2000, 3000}

InitMoney ==
    /\ layer = "money"
    /\ products = InitProducts
    /\ orders = << >>
    /\ last = NoResponse
    /\ req = [r \in RequestIds |-> IdleRequest]

\* the result of a call: the operand it was given and the amount it made
MoneyResponse(op, operand, amount) == Response(op, TRUE, "", 0, "", amount, <<operand>>)
Amounts == (-MaxAmount)..MaxAmount

\* Money(amount), lines 22-25
Dom_Money(mills) ==
    /\ layer = "money"
    /\ Quantize(mills) \in Amounts
    /\ last' = MoneyResponse("Money", mills, Quantize(mills))
    /\ UNCHANGED <<layer, products, orders, req>>

\* self + Money(mills), lines 27-31
Dom_Money_add(mills) ==
    /\ layer = "money"
    /\ Money_add(last.n, Quantize(mills)) \in Amounts
    /\ last' = MoneyResponse("Money.add", Quantize(mills),
                             Money_add(last.n, Quantize(mills)))
    /\ UNCHANGED <<layer, products, orders, req>>

\* self - Money(mills), lines 33-37
Dom_Money_sub(mills) ==
    /\ layer = "money"
    /\ Money_sub(last.n, Quantize(mills)) \in Amounts
    /\ last' = MoneyResponse("Money.sub", Quantize(mills),
                             Money_sub(last.n, Quantize(mills)))
    /\ UNCHANGED <<layer, products, orders, req>>

\* self * multiplier, lines 39-43
Dom_Money_mul(multiplier) ==
    /\ layer = "money"
    /\ Money_mul_scalar(last.n, multiplier) \in Amounts
    /\ last' = MoneyResponse("Money.mul", multiplier,
                             Money_mul_scalar(last.n, multiplier))
    /\ UNCHANGED <<layer, products, orders, req>>

\* self / divisor, lines 45-51
Dom_Money_truediv(divisor) ==
    /\ layer = "money"
    /\ last' = IF divisor = 0
               THEN Response("Money.truediv", FALSE, "ZeroDivisionError", 0, "", last.n,
                             <<divisor>>)
               ELSE MoneyResponse("Money.truediv", divisor,
                                  Money_truediv(last.n, divisor))
    /\ UNCHANGED <<layer, products, orders, req>>

NextMoney ==
    \/ \E mills \in MoneyInputs : Dom_Money(mills)
    \/ \E mills \in MoneyInputs : Dom_Money_add(mills)
    \/ \E mills \in MoneyInputs : Dom_Money_sub(mills)
    \/ \E multiplier \in MoneyMultipliers : Dom_Money_mul(multiplier)
    \/ \E divisor \in MoneyDivisors : Dom_Money_truediv(divisor)

SpecMoney == InitMoney /\ [][NextMoney]_vars

\* orders of the services under the status updates of the legacy route
NextLegacy ==
    \/ \E kc \in CreateCallers, lines \in LineSeqs(MaxLines), e \in FloatErr :
         Svc_create_order(kc, lines, e)
    \/ \E o \in 1..MaxOrders, s \in LegacyRequestStatuses : Route_update_order_status(o, s)

SpecLegacy == InitServices /\ [][NextLegacy]_vars

SpecOrder == InitDomain /\ [][NextOrder]_vars

\* reservations for one order: the order exists with a first item (stored
\* with id 1) and the stock of its product reserved, and is then changed
\* and cancelled through the domain service and the aggregate
InitReserve ==
    /\ layer = "domain"
    /\ \E p \in ProductIds, q \in Quantities :
         LET item == OrderItem(1, 1, p, InitName(p), q, InitPrice(p))
         IN /\ products = [InitProducts EXCEPT
                             ![p].stock = Product_reserve_stock(@, q)]
            /\ orders = <<[id |-> 1, user_id |-> 1, status |-> PENDING,
                           total_amount |-> calculate_total(<<item>>),
                           items |-> <<item>>]>>
    /\ last = NoResponse
    /\ req = [r \in RequestIds |-> IdleRequest]

NextReserve ==
    \/ \E o \in 1..MaxDomainOrders, p \in ProductIds, q \in 0..MaxQty :
         Dom_add_product_to_order(o, p, q)
    \/ \E o \in 1..MaxDomainOrders, id \in RequestItemIds : Dom_remove_item(o, id)
    \/ \E o \in 1..MaxDomainOrders, id \in RequestItemIds, q \in 0..MaxQty :
         Dom_update_item_quantity(o, id, q)
    \/ \E o \in 1..MaxDomainOrders, given \in SUBSET ProductIds : Dom_cancel_order(o, given)

SpecReserve == InitReserve /\ [][NextReserve]_vars

\* orders made from lists of products
UserIds == {0, 1}
NextCreate ==
    \E user_id \in UserIds, product_list \in ProductDataSeqs(MaxLines) :
        Dom_create_order_from_products(user_id, product_list)

SpecCreate == InitDomain /\ [][NextCreate]_vars

\* Order.calculate_total on orders of every item list: the prices of the
\* items are Money amounts (whole cents), the quantities are integers
TotalPrices == {1, 29, 333, 1000}
TotalItems ==
    {OrderItem(0, 0, 1, "n1", q, price) : q \in Quantities, price \in TotalPrices}
InitTotal ==
    /\ layer = "domain"
    /\ products = InitProducts
    /\ \E items \in UNION {[1..k -> TotalItems] : k \in 1..MaxTotalItems} :
         orders = <<[id |-> 1, user_id |-> 1, status |-> PENDING, total_amount |-> 0,
                     items |-> items]>>
    /\ last = NoResponse
    /\ req = [r \in RequestIds |-> IdleRequest]

\* Order.calculate_total, lines 299-312, called on the order
Dom_calculate_total(o) ==
    /\ layer = "domain"
    /\ o \in 1..Len(orders)
    /\ LET total == calculate_total(orders[o].items)
       IN /\ orders' = [orders EXCEPT ![o].total_amount = total]
          /\ last' = Response("calculate_total", TRUE, "", o, "", total, << >>)
    /\ UNCHANGED <<layer, products, req>>

NextTotal == \E o \in 1..MaxDomainOrders : Dom_calculate_total(o)

SpecTotal == InitTotal /\ [][NextTotal]_vars

\* ------------------------------------- services: two requests at the same time
\* Each request of RequestIds runs create_order once, statement by statement,
\* in its own session; the statements of the two requests interleave freely
\* and a commit writes the session's dirty rows in one step.

\* lines 82-89: the user and the item list
ReqBegin(r, kc, lines, e) ==
    /\ req[r].pc = "idle"
    /\ LET err == IF UserRow(kc) = 0 THEN "user_not_found"
                  ELSE IF lines = << >> THEN "no_items" ELSE ""
       IN req' = [req EXCEPT ![r] =
                    [pc |-> IF err = "" THEN "read" ELSE "failed", op |-> "create_order",
                     order |-> 0, kc |-> kc, lines |-> lines, i |-> 1, e |-> e,
                     sess |-> [EmptySession EXCEPT !.err = err]]]
    /\ UNCHANGED <<layer, products, orders, last>>

\* a request that raised: the session is dropped with everything it changed
Teardown(sess) == [EmptySession EXCEPT !.err = sess.err]

\* lines 98-100 for the current line
ReqRead(r) ==
    /\ req[r].pc = "read"
    /\ LET s1 == CreateRead(products, req[r].sess, req[r].lines[req[r].i])
       IN req' = [req EXCEPT ![r].sess = IF s1.err = "" THEN s1 ELSE Teardown(s1),
                             ![r].pc = IF s1.err = "" THEN "check" ELSE "failed"]
    /\ UNCHANGED <<layer, products, orders, last>>

\* lines 102-103 for the current line
ReqCheck(r) ==
    /\ req[r].pc = "check"
    /\ LET s1 == CreateCheck(req[r].sess, req[r].lines[req[r].i])
       IN req' = [req EXCEPT ![r].sess = IF s1.err = "" THEN s1 ELSE Teardown(s1),
                             ![r].pc = IF s1.err = "" THEN "decrement" ELSE "failed"]
    /\ UNCHANGED <<layer, products, orders, last>>

\* lines 105-117 for the current line, and on to the next one
ReqDecrement(r) ==
    /\ req[r].pc = "decrement"
    /\ req' = [req EXCEPT
                 ![r].sess = CreateDecrement(products, @, req[r].lines[req[r].i], req[r].e),
                 ![r].i = @ + 1,
                 ![r].pc = IF req[r].i = Len(req[r].lines) THEN "commit" ELSE "read"]
    /\ UNCHANGED <<layer, products, orders, last>>

\* lines 120-141: the order, its items and the commit
ReqCommit(r) ==
    /\ req[r].pc = "commit"
    /\ products' = Commit(products, req[r].sess)
    /\ orders' = Append(orders, NewOrder(Len(orders) + 1, UserRow(req[r].kc), req[r].sess))
    /\ req' = [req EXCEPT ![r].pc = "done"]
    /\ UNCHANGED <<layer, last>>

NextConc ==
    \E r \in RequestIds :
        \/ \E kc \in CreateCallers, lines \in LineSeqs(MaxLines) :
             ReqBegin(r, kc, lines, 0)
        \/ ReqRead(r)
        \/ ReqCheck(r)
        \/ ReqDecrement(r)
        \/ ReqCommit(r)

SpecConc == InitServices /\ [][NextConc]_vars

\* ------------------------------ services: a cancel next to another request
\* Request 1 runs cancel_order and request 2 runs cancel_order or
\* create_order, each statement by statement in its own session, on a
\* database that holds one pending order of one item.

InitCancel ==
    /\ layer = "services"
    /\ \E p \in ProductIds, q \in Quantities :
         LET sess == CreateLoop(InitProducts, EmptySession,
                                <<[product_id |-> p, quantity |-> q]>>, 0)
         IN /\ products = Commit(InitProducts, sess)
            /\ orders = <<NewOrder(1, 1, sess)>>
    /\ last = NoResponse
    /\ req = [r \in RequestIds |-> IdleRequest]

\* lines 198-205: the order as the caller may see it, and its status
ReqCancelBegin(r, order_id, user_id) ==
    /\ req[r].pc = "idle"
    /\ LET found == get_order_by_id(orders, order_id, user_id)
           err == IF found # "" THEN found ELSE CancelError(orders[order_id].status)
       IN req' = [req EXCEPT ![r] =
                    [IdleRequest EXCEPT !.pc = IF err = "" THEN "restore" ELSE "failed",
                                        !.op = "cancel_order",
                                        !.order = order_id,
                                        !.kc = user_id,
                                        !.i = 1,
                                        !.sess = [EmptySession EXCEPT !.err = err]]]
    /\ UNCHANGED <<layer, products, orders, last>>

\* lines 223-226 for the current item: the product is read and its stock
\* raised in the session
ReqCancelRestore(r) ==
    /\ req[r].pc = "restore"
    /\ LET items == orders[req[r].order].items
       IN req' = [req EXCEPT
                    ![r].sess = restore_product_stock(products, @, <<items[req[r].i]>>),
                    ![r].i = @ + 1,
                    ![r].pc = IF req[r].i = Len(items) THEN "cancel" ELSE "restore"]
    /\ UNCHANGED <<layer, products, orders, last>>

\* lines 211-212: the status and the commit
ReqCancelCommit(r) ==
    /\ req[r].pc = "cancel"
    /\ products' = Commit(products, req[r].sess)
    /\ orders' = [orders EXCEPT ![req[r].order].status = CANCELLED]
    /\ req' = [req EXCEPT ![r].pc = "done"]
    /\ UNCHANGED <<layer, last>>

\* callers of the cancel: an admin and the owner
CancelCallers == {"", "k1"}

NextCancel ==
    \/ \E r \in RequestIds, o \in 1..MaxOrders, u \in CancelCallers :
         ReqCancelBegin(r, o, u)
    \/ \E lines \in LineSeqs(MaxLines) : ReqBegin(2, "k1", lines, 0)
    \/ \E r \in RequestIds :
         \/ ReqCancelRestore(r)
         \/ ReqCancelCommit(r)
    \/ ReqRead(2)
    \/ ReqCheck(2)
    \/ ReqDecrement(2)
    \/ ReqCommit(2)

SpecCancel == InitCancel /\ [][NextCancel]_vars

\* ================================================================ properties
Stock(p) == products[p].stock
TerminalStatuses == {DELIVERED, CANCELLED}
\* the transition table of the order lifecycle, pair by pair
InTable(from, to) ==
    <<from, to>> \in {<<PENDING, PROCESSING>>, <<PENDING, CANCELLED>>,
                      <<PROCESSING, SHIPPED>>, <<PROCESSING, CANCELLED>>,
                      <<SHIPPED, DELIVERED>>, <<SHIPPED, CANCELLED>>}
\* quantity of product p over the lines of a request
RECURSIVE QtyOfLines(_, _)
QtyOfLines(lines, p) ==
    IF lines = << >> THEN 0
    ELSE (IF Head(lines).product_id = p THEN Head(lines).quantity ELSE 0)
         + QtyOfLines(Tail(lines), p)

\* ------------------------------------------------------------------------ C1
Finished(r) == req[r].pc \in {"done", "failed"}
\* both requests name one product on one line, each quantity fits the stock
\* alone and the two together do not
Contended ==
    \E p \in ProductIds :
        /\ \A r \in RequestIds :
             /\ UserRow(req[r].kc) # 0
             /\ Len(req[r].lines) = 1
             /\ req[r].lines[1].product_id = p
             /\ req[r].lines[1].quantity <= InitStock
        /\ req[1].lines[1].quantity + req[2].lines[1].quantity > InitStock

\* C1: of two concurrent placements for one product whose quantities fit the
\* stock one by one but not together, exactly one succeeds, the other fails
\* for lack of stock, and the final stock is not negative.
C1_ExactlyOneSucceeds ==
    (Finished(1) /\ Finished(2) /\ Contended) =>
        /\ \E r \in RequestIds :
             /\ req[r].pc = "done"
             /\ req[3 - r].pc = "failed"
             /\ req[3 - r].sess.err = "not_enough_stock"
        /\ \A p \in ProductIds : Stock(p) >= 0

\* ------------------------------------------------------------------------ C2
\* C2: a placement that fails creates no order and no items and leaves the
\* stock of every product as it was, also when earlier lines of the request
\* had already been checked and decremented.
C2_FailedPlacementChangesNothing ==
    [][(last'.op = "create_order" /\ ~last'.ok) =>
         (products' = products /\ orders' = orders)]_vars

\* a placement failed for lack of stock after an earlier line was decremented
C2_Witness ==
    /\ last.op = "create_order"
    /\ ~last.ok
    /\ last.err = "not_enough_stock"
    /\ last.arg = "dirty"

\* ------------------------------------------------------------------------ C3
\* C3: Order.update_status(to) on an order in status from succeeds and sets
\* the status exactly for the six pairs of the table; for every other pair
\* of valid statuses it fails with InvalidStatusTransitionError and the
\* status stays (so the same target right after a success fails).
C3_UpdateStatusFollowsTable ==
    [][(last'.op = "Order.update_status" /\ last'.arg \in OrderStatus_all) =>
         LET o == last'.order
             from == orders[o].status
         IN IF InTable(from, last'.arg)
            THEN last'.ok /\ orders'[o].status = last'.arg
            ELSE /\ ~last'.ok
                 /\ last'.err = "InvalidStatusTransitionError"
                 /\ orders'[o].status = from]_vars

\* the target of a transition was asked for again and refused
C3_Witness ==
    /\ last.op = "Order.update_status"
    /\ ~last.ok
    /\ last.err = "InvalidStatusTransitionError"
    /\ last.arg = SHIPPED
    /\ orders[last.order].status = SHIPPED

\* ------------------------------------------------------------------------ C4
\* C4: the services' update_order_status rejects every request whose pair
\* (current status, new status) is not in the table (same status, terminal
\* current status, target not allowed) and leaves the stored status alone.
C4_UpdateRejectsOutsideTable ==
    [][(/\ last'.op = "update_order_status"
        /\ last'.arg \in OrderStatus_all
        /\ last'.order \in 1..Len(orders)
        /\ ~InTable(orders[last'.order].status, last'.arg)) =>
         (~last'.ok /\ orders' = orders)]_vars

\* ------------------------------------------------------------------------ C5
\* C5: an order that is delivered or cancelled keeps that status for ever,
\* whatever update-status and cancel calls follow, in both layers.
C5_TerminalStatusStays ==
    [][\A o \in 1..Len(orders) :
         orders[o].status \in TerminalStatuses =>
           (o \in 1..Len(orders') /\ orders'[o].status = orders[o].status)]_vars

\* a status update was refused on a cancelled order of the services
C5_Witness ==
    /\ layer = "services"
    /\ last.op = "update_order_status"
    /\ ~last.ok
    /\ last.arg = PENDING
    /\ last.order \in 1..Len(orders)
    /\ orders[last.order].status = CANCELLED

\* ------------------------------------------------------------------------ C6
\* C6: every step that takes an order from a non-terminal status into
\* cancelled releases, in that same step, the quantity of each of its items
\* to the item's product, exactly once.
C6_CancelReleasesOnce ==
    [][\A o \in 1..Len(orders) :
         (orders[o].status \notin TerminalStatuses /\ orders'[o].status = CANCELLED) =>
           \A p \in ProductIds :
             products'[p].stock = products[p].stock + QtyOf(orders[o].items, p)]_vars

\* ------------------------------------------------------------------------ C7
\* C7: a status update into processing, shipped or delivered leaves the
\* stock of every product unchanged.
C7_ForwardUpdateKeepsStock ==
    [][(/\ last'.op \in {"update_order_status", "Order.update_status"}
        /\ last'.ok
        /\ last'.arg \in {PROCESSING, SHIPPED, DELIVERED}) =>
         products' = products]_vars

\* the services moved an order with items to shipped
C7_Witness ==
    /\ layer = "services"
    /\ last.op = "update_order_status"
    /\ last.ok
    /\ last.arg = SHIPPED
    /\ orders[last.order].items # << >>

\* ------------------------------------------------------------------------ C8
\* quantity of product p held by the orders other than o that are not cancelled
RECURSIVE HeldByOthers(_, _, _)
HeldByOthers(i, o, p) ==
    IF i = 0 THEN 0
    ELSE (IF i # o /\ orders[i].status # CANCELLED THEN QtyOf(orders[i].items, p) ELSE 0)
         + HeldByOthers(i - 1, o, p)
\* right after the services cancelled an order, every product has the stock
\* it would have had if that order had never been placed
StockAsIfNeverPlaced ==
    (layer = "services" /\ last.op = "cancel_order" /\ last.ok) =>
        \A p \in ProductIds :
            Stock(p) = InitStock - HeldByOthers(Len(orders), last.order, p)

C9_PlacementReserves ==
    [][/\ (last'.op = "create_order" /\ last'.ok) =>
            /\ Len(orders') = Len(orders) + 1
            /\ last'.order = Len(orders')
            /\ LET order == orders'[Len(orders')]
               IN /\ order.status = PENDING
                  /\ Len(order.items) = Len(last'.lines)
                  /\ \A i \in 1..Len(order.items) :
                       /\ order.items[i].product_id = last'.lines[i].product_id
                       /\ order.items[i].quantity = last'.lines[i].quantity
                       /\ order.items[i].price = products[order.items[i].product_id].price
                  /\ order.total_amount = SumSubtotals(order.items)
            /\ \A p \in ProductIds :
                 products'[p].stock = products[p].stock - QtyOfLines(last'.lines, p)
       /\ (last'.op = "add_product_to_order" /\ last'.ok) =>
            LET o == last'.order
                line == last'.lines[1]
            IN /\ orders'[o].items =
                    Append(orders[o].items,
                           OrderItem(0, o, line.product_id, products[line.product_id].name,
                                     line.quantity, products[line.product_id].price))
               /\ orders'[o].status = orders[o].status
               /\ orders'[o].total_amount = SumSubtotals(orders'[o].items)
               /\ \A p \in ProductIds :
                    products'[p].stock = products[p].stock - QtyOfLines(last'.lines, p)]_vars

\* the example of the specification at the scale of the model: all the stock
\* of the product priced 10.00 is ordered on one line, with a line of the
\* other product
C9_Witness ==
    /\ last.op = "create_order"
    /\ last.ok
    /\ Len(last.lines) = 2
    /\ QtyOfLines(last.lines, 1) = InitStock
    /\ Stock(1) = 0
    /\ Stock(2) = InitStock - 1
    /\ orders[last.order].total_amount = InitStock * 1000 + InitPrice(2)

\* ----------------------------------------------------------------------- C10
\* C10: update_stock(delta) with delta < 0 and |delta| > stock fails with
\* InsufficientInventoryError and leaves the stock unchanged, otherwise the
\* stock becomes stock + delta; reserve_stock(q) behaves as update_stock(-q)
\* and release_stock(q) as update_stock(q).
C10_UpdateStock ==
    [][last'.op \in {"update_stock", "reserve_stock", "release_stock"} =>
         LET p == last'.order
             delta == IF last'.op = "reserve_stock" THEN -last'.n ELSE last'.n
         IN IF delta < 0 /\ -delta > products[p].stock
            THEN /\ ~last'.ok
                 /\ last'.err = "InsufficientInventoryError"
                 /\ products' = products
            ELSE /\ last'.ok
                 /\ products' = [products EXCEPT ![p].stock = @ + delta]]_vars

\* reserve_stock was refused for asking more than the stock
C10_Witness ==
    /\ last.op = "reserve_stock"
    /\ ~last.ok
    /\ last.n > Stock(last.order)
    /\ Stock(last.order) > 0

\* ----------------------------------------------------------------------- C11
\* C11: whatever calls of update, update_stock, reserve_stock, release_stock,
\* activate and deactivate a Product has seen, failed ones included, its
\* stock is not negative and its price is above zero.
C11_ProductInvariant ==
    layer = "domain" =>
        \A p \in ProductIds : Stock(p) >= 0 /\ products[p].price > 0

\* ----------------------------------------------------------------------- C12
\* C12: from its construction on, with or without a total_amount given, and
\* through add_item, remove_item, update_item_quantity, update_status and
\* cancel, the total of an Order is the sum of price * quantity over its
\* items.
C12_TotalIsSumOfItems ==
    layer = "domain" =>
        \A o \in 1..Len(orders) : orders[o].total_amount = SumSubtotals(orders[o].items)

\* ----------------------------------------------------------------------- C13
\* C13: calculate_total gives the same total for every order of the same
\* items: the sum of price * quantity over them.
C13_TotalIgnoresItemOrder ==
    last.op = "calculate_total" =>
        LET items == orders[last.order].items
        IN /\ last.n = SumSubtotals(items)
           /\ \A perm \in Permutations(1..Len(items)) :
                calculate_total([i \in 1..Len(items) |-> items[perm[i]]]) = last.n

\* the total of three items of three different prices was calculated
C13_Witness ==
    /\ last.op = "calculate_total"
    /\ Len(orders[last.order].items) = 3
    /\ orders[last.order].items[1].price = 29
    /\ orders[last.order].items[2].price = 1000
    /\ orders[last.order].items[3].price = 333
    /\ orders[last.order].total_amount = last.n

\* ----------------------------------------------------------------------- C14
\* C14: add_item on a delivered or cancelled order fails and leaves items and
\* total as they were; on any other order it appends the item, with its
\* order_id set to the order's id, as the last item and the total is the sum
\* over the new items.
C14_AddItem ==
    [][(last'.op = "add_item" /\ last'.err # "ValidationError") =>
         LET o == last'.order
             item == last'.lines[1]
         IN IF orders[o].status \in TerminalStatuses
            THEN /\ ~last'.ok
                 /\ orders' = orders
            ELSE /\ last'.ok
                 /\ orders'[o].items =
                      Append(orders[o].items, [item EXCEPT !.order_id = orders[o].id])
                 /\ orders'[o].total_amount = SumSubtotals(orders'[o].items)
                 /\ orders'[o].status = orders[o].status]_vars

\* an item was added behind another one and carries the order's id
C14_Witness ==
    /\ last.op = "add_item"
    /\ last.ok
    /\ Len(orders[last.order].items) = 2
    /\ orders[last.order].items[2].order_id = orders[last.order].id
    /\ orders[last.order].items[2].product_id # orders[last.order].items[1].product_id
    /\ orders[last.order].items[1].order_id = 0

\* ----------------------------------------------------------------------- C15
\* whether a list of items has an item with the id
HasItem(items, item_id) == \E i \in 1..Len(items) : items[i].id = item_id

\* what remove_item(id) does but for the error it raises when no item has
\* the id: on a delivered or cancelled order it fails, with no item of the
\* id it fails with the error not_found, and in both cases items and total
\* stay; otherwise the first item with the id goes, the others keep their
\* order and the total is the sum over the remaining items
RemoveItemAsClaimed(not_found) ==
    last'.op = "remove_item" =>
        LET o == last'.order
            id == last'.n
            items == orders[o].items
        IN IF orders[o].status \in TerminalStatuses
           THEN ~last'.ok /\ orders' = orders
           ELSE IF ~HasItem(items, id)
           THEN ~last'.ok /\ last'.err = not_found /\ orders' = orders
           ELSE /\ last'.ok
                /\ \E i \in 1..Len(items) :
                     /\ items[i].id = id
                     /\ \A j \in 1..(i - 1) : items[j].id # id
                     /\ orders'[o].items =
                          [j \in 1..(Len(items) - 1) |->
                              IF j < i THEN items[j] ELSE items[j + 1]]
                /\ orders'[o].total_amount = SumSubtotals(orders'[o].items)

QuantitiesPositive ==
    \A o \in 1..Len(orders) :
        \A i \in 1..Len(orders[o].items) : orders[o].items[i].quantity > 0

\* C16: update_item_quantity(id, qty) fails on a delivered or cancelled
\* order, for qty <= 0 and when no item has the id, and then changes nothing;
\* otherwise it sets the quantity of the first item with the id, and of no
\* other item, to qty and the total is the sum over the items.  So every
\* item of an order has a quantity above zero in every reachable state.
C16_UpdateItemQuantity ==
    /\ [][last'.op = "update_item_quantity" =>
            LET o == last'.order
                id == last'.lines[1]
                qty == last'.n
                items == orders[o].items
            IN IF \/ orders[o].status \in TerminalStatuses
                  \/ qty <= 0
                  \/ ~HasItem(items, id)
               THEN ~last'.ok /\ orders' = orders
               ELSE /\ last'.ok
                    /\ \E i \in 1..Len(items) :
                         /\ items[i].id = id
                         /\ \A j \in 1..(i - 1) : items[j].id # id
                         /\ orders'[o].items = [items EXCEPT ![i].quantity = qty]
                    /\ orders'[o].total_amount = SumSubtotals(orders'[o].items)
                    /\ orders'[o].status = orders[o].status]_vars
    /\ [](layer = "domain" => QuantitiesPositive)

\* of two items with the same id the first got a new quantity
C16_Witness ==
    /\ last.op = "update_item_quantity"
    /\ last.ok
    /\ Len(orders[last.order].items) = 2
    /\ orders[last.order].items[1].id = orders[last.order].items[2].id
    /\ orders[last.order].items[1].product_id = orders[last.order].items[2].product_id
    /\ orders[last.order].items[1].quantity = last.n
    /\ orders[last.order].items[2].quantity # last.n

\* ----------------------------------------------------------------------- C17
\* C17: a cancel (Order.cancel and cancel_order, by a caller who may see the
\* order) fails only on an order that is cancelled or delivered; on a
\* pending, processing or shipped order it succeeds and the order becomes
\* cancelled.
C17_CancelFailsOnlyOnTerminal ==
    [][(/\ last'.op \in {"Order.cancel", "cancel_order"}
        /\ last'.order \in 1..Len(orders)
        /\ last'.err # "order_not_found") =>
         LET o == last'.order
             from == orders[o].status
         IN IF from \in {CANCELLED, DELIVERED}
            THEN ~last'.ok /\ orders'[o].status = from
            ELSE last'.ok /\ orders'[o].status = CANCELLED]_vars

\* ----------------------------------------------------------------------- C18
\* C18: a placement with no lines, or with a line that names a product that
\* does not exist or is inactive, is rejected, and a rejected placement
\* creates no order and changes no stock; so every placement that succeeds
\* has lines and each names an active product.  The same for the domain's
\* add_product_to_order, which reserves no stock of an inactive product.
C18_RejectsMissingOrInactive ==
    [][/\ (last'.op = "create_order" /\ last'.ok) =>
            /\ last'.lines # << >>
            /\ \A i \in 1..Len(last'.lines) :
                 /\ last'.lines[i].product_id \in ProductIds
                 /\ products[last'.lines[i].product_id].is_active
       /\ (last'.op = "add_product_to_order" /\ last'.ok) =>
            products[last'.lines[1].product_id].is_active
       /\ (last'.op \in {"create_order", "add_product_to_order"} /\ ~last'.ok) =>
            (orders' = orders /\ products' = products)]_vars

\* ----------------------------------------------------------------------- C19
\* the stock the request sees of product p after its first k lines
ViewAfter(lines, k, p) ==
    LET sess == CreateLoop(products, EmptySession, SubSeq(lines, 1, k), 0)
    IN IF p \in sess.loaded THEN sess.view[p] ELSE Stock(p)

\* C19: a placement checks each line against the stock as its earlier lines
\* left it: it succeeds only when, for every product, the quantities of the
\* lines that name it add up to at most the stock before the request, and
\* the stock is never below zero, neither after a line nor after the request.
C19_LinesShareTheStock ==
    /\ [][/\ (last'.op = "create_order" /\ last'.ok) =>
               \A p \in ProductIds :
                   /\ QtyOfLines(last'.lines, p) <= products[p].stock
                   /\ \A k \in 0..Len(last'.lines) : ViewAfter(last'.lines, k, p) >= 0
          /\ (last'.op = "add_product_to_order" /\ last'.ok) =>
               last'.n <= products[last'.lines[1].product_id].stock]_vars
    /\ [](\A p \in ProductIds : Stock(p) >= 0)

\* a placement of two lines for one product took all its stock
C19_Witness ==
    /\ last.op = "create_order"
    /\ last.ok
    /\ Len(last.lines) = 2
    /\ last.lines[1].product_id = last.lines[2].product_id
    /\ QtyOfLines(last.lines, last.lines[1].product_id) = InitStock
    /\ Stock(last.lines[1].product_id) = 0

\* ----------------------------------------------------------------------- C20
\* the name of item i of order o as the program gives it: the field of the
\* item in the domain, the name in the result of get_order in the services
ItemName(db, os, o, i) ==
    IF layer = "domain" THEN os[o].items[i].product_name
    ELSE get_order_items(db, os[o])[i].product_name

\* C20: the items of a new order carry the price and the name their product
\* has when the order is placed, and a later change of a product's price or
\* name leaves the price, the name and the subtotal of every item of every
\* existing order, and the total of every existing order, as they were.
C20_PriceAndNameSnapshot ==
    [][/\ (last'.op \in {"create_order", "add_product_to_order"} /\ last'.ok) =>
            LET o == last'.order
                n == Len(orders'[o].items)
            IN \A i \in (IF last'.op = "create_order" THEN 1 ELSE n)..n :
                 LET p == orders'[o].items[i].product_id
                 IN /\ orders'[o].items[i].price = products[p].price
                    /\ ItemName(products', orders', o, i) = products[p].name
       /\ (last'.op \in {"update_product", "Product.update"}) =>
            \A o \in 1..Len(orders) :
                /\ orders'[o] = orders[o]
                /\ \A i \in 1..Len(orders[o].items) :
                     ItemName(products', orders', o, i) = ItemName(products, orders, o, i)]_vars

\* ----------------------------------------------------------------------- C21
\* the caller of a cancel request may cancel the order: "" is an admin (the
\* route passes user_id None), any other caller must own the order
MayCancel(order, caller) ==
    caller = "" \/ (UserRow(caller) # 0 /\ order.user_id = UserRow(caller))
\* the statuses from which the services' cancel_order cancels
CancellableInServices == {PENDING, PROCESSING}

\* C21: a cancel request of a caller who is neither the owner of the order
\* nor an admin is rejected and changes neither the order nor any stock; for
\* the owner and for an admin the outcome depends on the status alone.
C21_CancelNeedsOwnerOrAdmin ==
    [][(/\ layer = "services"
        /\ last'.op = "cancel_order"
        /\ last'.order \in 1..Len(orders)) =>
         LET o == last'.order
         IN IF ~MayCancel(orders[o], last'.arg)
            THEN /\ ~last'.ok
                 /\ last'.err = "order_not_found"
                 /\ orders' = orders
                 /\ products' = products
            ELSE /\ last'.err \in {"", "already_cancelled", "cannot_cancel"}
                 /\ last'.ok <=> orders[o].status \in CancellableInServices
                 /\ last'.ok => orders'[o].status = CANCELLED]_vars

\* a user who does not own a pending order asked to cancel it and was refused
C21_Witness ==
    /\ layer = "services"
    /\ last.op = "cancel_order"
    /\ ~last.ok
    /\ last.arg = "k2"
    /\ last.order \in 1..Len(orders)
    /\ orders[last.order].status = PENDING
    /\ orders[last.order].user_id = 1
    /\ \E p \in ProductIds : Stock(p) < InitStock

\* ----------------------------------------------------------------------- C22
\* C22: a delete of a product only clears its active flag: the row stays as
\* it was but for the flag.  So every product that an order item refers to
\* has its row, and a deleted product is not found by get_product_by_id
\* (a second delete of it fails) and cannot be ordered.
C22_DeleteOnlyClearsFlag ==
    /\ [][/\ (last'.op \in {"delete_product", "ProductRepository.delete"} /\ last'.ok) =>
               /\ last'.order \in DOMAIN products'
               /\ products' = [products EXCEPT ![last'.order].is_active = FALSE]
          /\ (last'.op = "delete_product" /\ last'.order \in DOMAIN products
                /\ ~products[last'.order].is_active) => ~last'.ok
          /\ (last'.op = "create_order" /\ last'.ok) =>
               \A i \in 1..Len(last'.lines) :
                   /\ last'.lines[i].product_id \in DOMAIN products
                   /\ products[last'.lines[i].product_id].is_active]_vars
    /\ [](\A o \in 1..Len(orders) : \A i \in 1..Len(orders[o].items) :
             orders[o].items[i].product_id \in DOMAIN products)

\* ----------------------------------------------------------------------- C23
Abs(x) == IF x < 0 THEN -x ELSE x
\* r is num / den (den > 0) rounded to an integer, half to even: no integer
\* is nearer, and of two that are equally near r is the even one
IsHalfEven(r, num, den) ==
    /\ 2 * Abs(num - r * den) <= den
    /\ 2 * Abs(num - r * den) = den => r % 2 = 0

\* C23: every amount a Money is constructed from and every result of add,
\* subtract, multiply and divide is brought to whole cents by rounding half
\* to even (10.005 gives 10.00 and 10.015 gives 10.02); a division by zero
\* fails.
C23_RoundHalfEven ==
    [][layer = "money" =>
         LET a == last.n
             x == last'.lines[1]
             r == last'.n
         IN CASE last'.op = "Money" ->
                   /\ IsHalfEven(r, x, 10)
                   /\ x = 10005 => r = 1000
                   /\ x = 10015 => r = 1002
              [] last'.op = "Money.add" -> IsHalfEven(r, a + x, 1)
              [] last'.op = "Money.sub" -> IsHalfEven(r, a - x, 1)
              [] last'.op = "Money.mul" -> IsHalfEven(r, a * x, 1000)
              [] last'.op = "Money.truediv" ->
                   IF x = 0 THEN ~last'.ok /\ r = a
                   ELSE IF x < 0 THEN IsHalfEven(r, -(a * 1000), -x)
                   ELSE IsHalfEven(r, a * 1000, x)]_vars

\* 0.25 was divided by 2: of 0.12 and 0.13 the result is 0.12
C23_Witness ==
    /\ last.op = "Money.truediv"
    /\ last.lines = <<2000>>
    /\ last.n = 12
    /\ Quantize(10005) = 1000
    /\ Quantize(10015) = 1002
    /\ Money_truediv(25, 2000) = 12
    /\ Money_truediv(15, 2000) = 8

\* ----------------------------------------------------------------------- C24
\* C24: create_order_from_products with a user id, an address and a list of
\* products returns a pending Order when the list is not empty and every
\* entry has a product_id and a quantity above zero; it raises
\* BusinessRuleError only for an empty list and ValueError only for a
\* malformed entry.
C24_CreateFromProducts ==
    [][(last'.op = "create_order_from_products" /\ last'.n # 0) =>
         LET product_list == last'.lines
         IN IF product_list = << >>
            THEN ~last'.ok /\ last'.err = "BusinessRuleError"
            ELSE IF \E i \in 1..Len(product_list) : ProductDataInvalid(product_list[i])
            THEN ~last'.ok /\ last'.err = "ValueError"
            ELSE /\ last'.ok
                 /\ Len(orders') = Len(orders) + 1
                 /\ orders'[last'.order].status = PENDING]_vars

\* ----------------------------------------------------------------------- C25
\* C25: an Order that is not cancelled has at least one item in every
\* reachable state, whatever add_item, remove_item and update_item_quantity
\* calls it has seen.
C25_NeverWithoutItems ==
    layer = "domain" =>
        \A o \in 1..Len(orders) :
            orders[o].status # CANCELLED => orders[o].items # << >>

\* ----------------------------------------------------------------------- C26
\* C26: in the domain, cancel_order gives every product back what was
\* reserved of it for the order, whatever add_product_to_order, remove_item
\* and update_item_quantity calls came before and whatever list of products
\* it is given: after the cancel every product has the stock it had before
\* the order.
C26_CancelReturnsAllReserved ==
    (layer = "domain" /\ last.op = "cancel_order" /\ last.ok) =>
        \A p \in ProductIds : Stock(p) = InitStock

\* ----------------------------------------------------------------------- C27
\* C27: ProductRepository.update_stock(product_id, quantity) with a negative
\* quantity larger than the stored stock fails and leaves the stored stock
\* as it was; otherwise the stored stock becomes stock + quantity; a
\* negative stock is never stored.
C27_RepositoryUpdateStock ==
    /\ [][(/\ last'.op = "ProductRepository.update_stock"
           /\ last'.order \in DOMAIN products) =>
            LET p == last'.order
                quantity == last'.n
            IN IF quantity < 0 /\ -quantity > products[p].stock
               THEN ~last'.ok /\ products' = products
               ELSE /\ last'.ok
                    /\ products' = [products EXCEPT ![p].stock = @ + quantity]]_vars
    /\ [](\A p \in DOMAIN products : products[p].stock >= 0)

\* ----------------------------------------------------------------------- C28
\* quantity of product p over the items of the first i orders that are not
\* cancelled
RECURSIVE HeldByOrders(_, _)
HeldByOrders(i, p) ==
    IF i = 0 THEN 0
    ELSE (IF orders[i].status # CANCELLED THEN QtyOf(orders[i].items, p) ELSE 0)
         + HeldByOrders(i - 1, p)

\* C28: in the services, after any sequence of create_order, cancel_order
\* and update_order_status requests, one at a time, successful or not, the
\* stock of every product plus the quantity of it in the items of the orders
\* that are not cancelled is the stock the product started with.
C28_StockConservation ==
    layer = "services" =>
        \A p \in ProductIds : Stock(p) + HeldByOrders(Len(orders), p) = InitStock

\* an order that held all the stock of a product is cancelled, a later one
\* holds it all again and is shipped, and a cancel of the shipped one was
\* refused
C28_Witness ==
    /\ layer = "services"
    /\ Len(orders) = 2
    /\ orders[1].status = CANCELLED
    /\ orders[2].status = SHIPPED
    /\ QtyOf(orders[1].items, 1) = InitStock
    /\ QtyOf(orders[2].items, 1) = InitStock
    /\ Stock(1) = 0
    /\ last.op = "cancel_order"
    /\ ~last.ok
    /\ last.order = 2

\* ----------------------------------------------------------------------- C29
\* request r is a cancel of order o by a caller who may see the order
CancelOf(r, o) ==
    /\ req[r].op = "cancel_order"
    /\ req[r].order = o
    /\ req[r].sess.err # "order_not_found"
\* request r is a placement with a line for a product of order o
PlacementTouching(r, o) ==
    /\ req[r].op = "create_order"
    /\ \E i \in 1..Len(req[r].lines) :
         QtyOf(orders[o].items, req[r].lines[i].product_id) > 0

\* C29: when a cancel of a pending order runs next to another cancel of the
\* same order, or next to a placement with a line for a product of the
\* order, then after every interleaving of their statements the stock of
\* the order is released exactly once and no update of a stock is lost: the
\* stock of every product is its first stock minus the quantity of it in
\* the orders that are not cancelled.
C29_ConcurrentCancel ==
    (/\ Finished(1)
     /\ Finished(2)
     /\ CancelOf(1, 1)
     /\ CancelOf(2, 1) \/ PlacementTouching(2, 1)) =>
        \A p \in ProductIds : Stock(p) = InitStock - HeldByOrders(Len(orders), p)

\* ----------------------------------------------------------------------- C30
\* C30: under the status updates of the legacy route an order that is
\* cancelled stays cancelled (it cannot go back to pending or completed),
\* and the stock of the items of an order is restored at most once in all:
\* a status update raises the stock only for an order that was not cancelled
\* before, and no product ever has more stock than it started with.
C30_LegacyCancelIsFinal ==
    /\ [][last'.op = "routes.update_order_status" =>
            /\ \A o \in 1..Len(orders) :
                 orders[o].status = CANCELLED => orders'[o].status = CANCELLED
            /\ products' # products =>
                 /\ last'.arg = CANCELLED
                 /\ orders[last'.order].status # CANCELLED]_vars
    /\ [](\A p \in ProductIds : Stock(p) <= InitStock)

====
